---------------------------- MODULE Spec2Model ----------------------------
(***************************************************************************)
(* A model of the auto-loop audio player.                                  *)
(*                                                                         *)
(*   - Intake (FileSelector): filter the selected files to audio files and *)
(*     sort them by leading number, then by lower-cased name.              *)
(*   - Coordination (AudioManager / Index): the playlist audioFiles and    *)
(*     the shared activeAudioIndex.                                        *)
(*   - One AudioContainer widget per playlist slot: its React state, the   *)
(*     <audio> element it renders, the listeners it attached, and the      *)
(*     asynchronous handlePlay invocations still in flight.                *)
(*                                                                         *)
(* A state of the model is a committed React render.  Passive effects of a *)
(* commit run before React processes the next update, so while the         *)
(* active-state effect of some widget is due, that effect is the only step *)
(* taken (EffectPending).                                                  *)
(*                                                                         *)
(* Specification Spec is AudioManager with the AudioContainer of           *)
(* src/unnamed/part_000 lines 238-625, with media failures.  SpecHandoff   *)
(* is the same player without failures, the user acting only when no play  *)
(* call is in flight; SpecIndexHandoff is the self-contained page          *)
(* src/src/pages/Index.tsx under the same conditions.  SpecIntake is the   *)
(* file selector alone, over a larger set of files, recording each         *)
(* selection; SpecUrl is the player with the object URLs of its widgets.   *)
(***************************************************************************)
EXTENDS Integers, Sequences, FiniteSets, TLC

(***************************************************************************)
(* Bounds of the model.                                                    *)
(***************************************************************************)
\* Length of every media resource, in playback ticks.
Dur == 1
\* Cap on the handlePlay invocations of one slot that are in flight at once.
MaxPending == 1
\* Cap on the failures of media elements that a handler of a widget handles
\* in one run (rejected play calls, error events, exceptions thrown).
MaxFaults == 1

(***************************************************************************)
(* Intake: FileSelector.                                                   *)
(***************************************************************************)
\* A file name is a sequence of one-character strings.
LowerOf ==
    ("A" :> "a") @@ ("B" :> "b") @@ ("M" :> "m") @@ ("P" :> "p") @@
    ("V" :> "v") @@ ("W" :> "w")

toLowerCase(s) ==
    [k \in 1..Len(s) |-> IF s[k] \in DOMAIN LowerOf THEN LowerOf[s[k]] ELSE s[k]]

endsWith(s, ext) ==
    /\ Len(ext) <= Len(s)
    /\ SubSeq(s, Len(s) - Len(ext) + 1, Len(s)) = ext

audioTypes ==
    {"audio/mpeg", "audio/wav", "audio/ogg", "audio/mp3",
     "audio/mp4", "audio/aac", "audio/flac", "audio/webm"}

audioExtensions ==
    { <<".", "m", "p", "3">>, <<".", "w", "a", "v">>, <<".", "o", "g", "g">>,
      <<".", "m", "4", "a">>, <<".", "a", "a", "c">>,
      <<".", "f", "l", "a", "c">>, <<".", "w", "m", "a">>,
      <<".", "o", "p", "u", "s">> }

\* An isAudioFile that compares the extension without lower-casing the
\* name: the filter contract must tell it from isAudioFile.
isAudioFileCaseSensitive(file) ==
    \/ file.type \in audioTypes
    \/ \E ext \in audioExtensions : endsWith(file.name, ext)

isAudioFile(file) ==
    \/ file.type \in audioTypes
    \/ \E ext \in audioExtensions : endsWith(toLowerCase(file.name), ext)

DigitValue ==
    ("0" :> 0) @@ ("1" :> 1) @@ ("2" :> 2) @@ ("3" :> 3) @@ ("4" :> 4) @@
    ("5" :> 5) @@ ("6" :> 6) @@ ("7" :> 7) @@ ("8" :> 8) @@ ("9" :> 9)

\* Length of the leading run of decimal digits: the match of /^(\d+)/.
RECURSIVE DigitRun(_, _)
DigitRun(s, k) ==
    IF k <= Len(s) /\ s[k] \in DOMAIN DigitValue THEN DigitRun(s, k + 1) ELSE k - 1

\* parseInt(digits, 10)
RECURSIVE parseInt(_, _)
parseInt(s, n) ==
    IF n = 0 THEN 0 ELSE 10 * parseInt(s, n - 1) + DigitValue[s[n]]

\* An extractNumber that returns 0 instead of Infinity: the place of the
\* unnumbered names must tell it from extractNumber.
extractNumberZero(filename) ==
    LET n == DigitRun(filename, 1)
    IN  [inf |-> FALSE, num |-> IF n > 0 THEN parseInt(filename, n) ELSE 0]

\* The sort key: [inf |-> TRUE] stands for Infinity (no leading digit).
extractNumber(filename) ==
    LET n == DigitRun(filename, 1)
    IN  IF n > 0 THEN [inf |-> FALSE, num |-> parseInt(filename, n)]
        ELSE [inf |-> TRUE, num |-> 0]

\* Collation rank of a character: punctuation, then digits, then letters.
CollationRank ==
    ("-" :> 1) @@ ("." :> 2) @@
    ("0" :> 10) @@ ("1" :> 11) @@ ("2" :> 12) @@ ("3" :> 13) @@ ("4" :> 14) @@
    ("5" :> 15) @@ ("6" :> 16) @@ ("7" :> 17) @@ ("8" :> 18) @@ ("9" :> 19) @@
    ("a" :> 30) @@ ("b" :> 31) @@ ("c" :> 32) @@ ("g" :> 36) @@ ("h" :> 37) @@
    ("i" :> 38) @@
    ("m" :> 42) @@ ("n" :> 43) @@ ("o" :> 44) @@ ("p" :> 45) @@ ("t" :> 49) @@
    ("v" :> 51) @@ ("w" :> 52) @@ ("x" :> 53)

\* a.localeCompare(b) on lower-cased names: -1, 0 or 1.
RECURSIVE localeCompare(_, _, _)
localeCompare(a, b, k) ==
    IF k > Len(a) /\ k > Len(b) THEN 0
    ELSE IF k > Len(a) THEN -1
    ELSE IF k > Len(b) THEN 1
    ELSE IF CollationRank[a[k]] < CollationRank[b[k]] THEN -1
    ELSE IF CollationRank[a[k]] > CollationRank[b[k]] THEN 1
    ELSE localeCompare(a, b, k + 1)

\* A comparator that compares the names only: the numeric order must tell
\* it from compareFiles.
compareFilesLexical(a, b) ==
    localeCompare(toLowerCase(a.name), toLowerCase(b.name), 1)

\* The comparator of sortAudioFiles: negative, zero or positive.
compareFiles(a, b) ==
    LET numA == extractNumber(a.name)
        numB == extractNumber(b.name)
    IN  IF numA # numB
        THEN IF numA.inf THEN 1
             ELSE IF numB.inf THEN -1
             ELSE numA.num - numB.num
        ELSE localeCompare(toLowerCase(a.name), toLowerCase(b.name), 1)

\* An unstable sort: an element goes before the elements it compares equal
\* to.  Stability must tell it from InsertSorted.
RECURSIVE InsertSortedUnstable(_, _)
InsertSortedUnstable(sorted, f) ==
    IF sorted = <<>> THEN <<f>>
    ELSE IF compareFiles(sorted[Len(sorted)], f) < 0 THEN Append(sorted, f)
    ELSE Append(InsertSortedUnstable(SubSeq(sorted, 1, Len(sorted) - 1), f),
                sorted[Len(sorted)])

\* Array.prototype.sort is stable: an element goes after every element that
\* does not compare greater than it.
RECURSIVE InsertSorted(_, _)
InsertSorted(sorted, f) ==
    IF sorted = <<>> THEN <<f>>
    ELSE IF compareFiles(sorted[Len(sorted)], f) <= 0 THEN Append(sorted, f)
    ELSE Append(InsertSorted(SubSeq(sorted, 1, Len(sorted) - 1), f),
                sorted[Len(sorted)])

RECURSIVE sortAudioFiles(_)
sortAudioFiles(files) ==
    IF files = <<>> THEN <<>>
    ELSE InsertSorted(sortAudioFiles(SubSeq(files, 1, Len(files) - 1)),
                      files[Len(files)])

RECURSIVE filterAudio(_)
filterAudio(files) ==
    IF files = <<>> THEN <<>>
    ELSE LET rest == filterAudio(SubSeq(files, 1, Len(files) - 1))
             f == files[Len(files)]
         IN  IF isAudioFile(f) THEN Append(rest, f) ELSE rest

\* processFiles: the playlist handed to onFilesSelected, or <<>> when the
\* selection holds no audio file (the alert, and no call of onFilesSelected).
processFiles(fileList) == sortAudioFiles(filterAudio(fileList))

(***************************************************************************)
(* The files the user can select in the coordination specifications.       *)
(***************************************************************************)
FileTwo == [name |-> <<"2", "-", "a", ".", "m", "p", "3">>, type |-> "audio/mpeg"]
FileTen == [name |-> <<"1", "0", "-", "b", ".", "M", "P", "3">>, type |-> ""]
FilePhoto == [name |-> <<"p", "h", "o", "t", "o", ".", "p", "n", "g">>, type |-> "image/png"]

UserFiles == {FileTwo, FileTen, FilePhoto}

\* The selections the picker can hand over: sequences without repetition.
Selections ==
    { s \in UNION { [1..n -> UserFiles] : n \in 1..Cardinality(UserFiles) } :
        \A a, b \in DOMAIN s : a # b => s[a] # s[b] }

MaxFiles == Cardinality({ f \in UserFiles : isAudioFile(f) })
Slots == 1..MaxFiles

(***************************************************************************)
(* The files the user can select in the intake specification: names with   *)
(* digit runs of different lengths, the same number written in two ways,   *)
(* two names that differ in case only, a file known by its type alone, and *)
(* files that are not audio files.                                         *)
(***************************************************************************)
FileZeroTwo == [name |-> <<"0", "2", ".", "o", "g", "g">>, type |-> "audio/ogg"]
FileWav == [name |-> <<"b", ".", "w", "a", "v">>, type |-> ""]
FileWavUpper == [name |-> <<"B", ".", "W", "A", "V">>, type |-> "audio/wav"]
FileTyped == [name |-> <<"x", ".", "b", "i", "n">>, type |-> "audio/flac"]
FileText == [name |-> <<"m", "p", "3", ".", "t", "x", "t">>, type |-> "text/plain"]

IntakeFiles ==
    {FileTwo, FileTen, FilePhoto, FileZeroTwo, FileWav, FileWavUpper,
     FileTyped, FileText}

\* The largest number of files in one selection.
MaxSelected == 3

IntakeSelections ==
    { s \in UNION { [1..n -> IntakeFiles] : n \in 1..MaxSelected } :
        \A a, b \in DOMAIN s : a # b => s[a] # s[b] }


(***************************************************************************)
(* The time labels: formatTime.  A number is NaN, Infinity, or a finite    *)
(* count of ticks, TicksPerSecond of them to the second.  A text is a      *)
(* sequence of one-character strings.                                      *)
(***************************************************************************)
TicksPerSecond == 2
\* The longest time given to formatTime, in seconds.
MaxTime == 700

Seconds(n) == [kind |-> "finite", ticks |-> n * TicksPerSecond]

Times ==
    { [kind |-> "finite", ticks |-> k] : k \in 0..(MaxTime * TicksPerSecond) }
    \cup { [kind |-> "NaN", ticks |-> 0], [kind |-> "Infinity", ticks |-> 0] }

isFinite(time) == time.kind = "finite"

DigitChar == <<"0", "1", "2", "3", "4", "5", "6", "7", "8", "9">>

\* Number.prototype.toString of a non-negative integer.
RECURSIVE toString(_)
toString(n) ==
    IF n < 10 THEN <<DigitChar[n + 1]>>
    ELSE Append(toString(n \div 10), DigitChar[(n % 10) + 1])

\* String.prototype.padStart
RECURSIVE padStart(_, _, _)
padStart(str, targetLength, pad) ==
    IF Len(str) >= targetLength THEN str
    ELSE padStart(<<pad>> \o str, targetLength, pad)

\* A formatTime that does not pad the seconds: the format of the label must
\* tell it from formatTime.
formatTimeUnpadded(time) ==
    IF ~isFinite(time) THEN <<"0", ":", "0", "0">>
    ELSE LET minutes == time.ticks \div (60 * TicksPerSecond)
             seconds == (time.ticks % (60 * TicksPerSecond)) \div TicksPerSecond
         IN  toString(minutes) \o <<":">> \o toString(seconds)

formatTime(time) ==
    IF ~isFinite(time) THEN <<"0", ":", "0", "0">>
    ELSE LET minutes == time.ticks \div (60 * TicksPerSecond)
             seconds == (time.ticks % (60 * TicksPerSecond)) \div TicksPerSecond
         IN  toString(minutes) \o <<":">> \o padStart(toString(seconds), 2, "0")

(***************************************************************************)
(* State.                                                                  *)
(*                                                                         *)
(* widget[i] is the AudioContainer of playlist slot i (index i - 1 of the  *)
(* source): its React state (isPlaying, currentTime, duration, volume,     *)
(* isLoading, hasError) and what it holds besides:                         *)
(*   audioTime, audible, eload                                             *)
(*            the <audio> element the widget renders (audioRef.current):   *)
(*            its currentTime, whether it is playing, its load progress    *)
(*            ("none" when no element is rendered);                        *)
(*   lis      where the listeners of the listener effect are: on the       *)
(*            rendered element ("cur"), on an element a render has since   *)
(*            removed ("old"), or nowhere ("none");                        *)
(*   oload    the load progress of that removed element ("none" unless lis *)
(*            is "old"; "start" after audio.load() was called on it);      *)
(*   missed   the active-state effect ran for the current isActive and     *)
(*            isPlaying while no element was rendered, and did nothing;    *)
(*   pendCur  handlePlay invocations in flight (between onPlay and the end *)
(*            of `await audio.play()`) whose captured `audio` is the       *)
(*            rendered element;                                            *)
(*   pendDet  the same, whose captured element a render has removed;       *)
(*   replay   the play() promise of handleEnded / handleRestart is pending. *)
(* The error render (hasError) holds no <audio> element: the element is    *)
(* removed from the document, which pauses it, and leaving the error       *)
(* render mounts a fresh element, which loads its src.  The listener       *)
(* effect has dependencies [audioUrl, volume, isActive] and does not run   *)
(* again on that change; the active-state effect has [isActive, isPlaying].*)
(*                                                                         *)
(* pendDead counts the handlePlay invocations in flight whose widget has   *)
(* been unmounted; ghost says that some element removed from the document  *)
(* is playing (play() was called on it after its removal).                 *)
(* faults counts the failures of media elements handled so far.            *)
(* alert says that the alert of processFiles is open: it is modal, nothing *)
(* runs until the user dismisses it.                                       *)
(*                                                                         *)
(* Two variables record what only the intake and the object-URL            *)
(* specifications follow; the other specifications leave them alone:       *)
(*   fileList    the FileList handed to the last call of processFiles;     *)
(*   objectUrls  the object URLs: of[k] is the audioUrl of the widget of   *)
(*               slot k (NoUrl: none), revoked[u] the number of times URL  *)
(*               u was handed to URL.revokeObjectURL; the URLs created so  *)
(*               far are 1..Len(revoked).                                  *)
(* timeLabel is followed by the time-label specification alone: the number *)
(* last handed to formatTime and the text it returned.                     *)
(***************************************************************************)
VARIABLES audioFiles, activeAudioIndex, widget, pendDead, ghost, faults,
          alert, fileList, objectUrls, timeLabel

vars == <<audioFiles, activeAudioIndex, widget, pendDead, ghost, faults,
          alert, fileList, objectUrls, timeLabel>>

\* audioUrl = ''
NoUrl == 0

\* activeAudioIndex = null
NoIndex == 0

\* The values of volume the slider is moved to (min and max of the slider).
VolumeLevels == {0, 1}

\* The state of a freshly mounted AudioContainer: the useState initial
\* values, and an element that loads its src with the listeners on it.
InitWidget ==
    [isPlaying |-> FALSE, currentTime |-> 0, duration |-> 0, volume |-> 1,
     isLoading |-> TRUE, hasError |-> FALSE,
     audioTime |-> 0, audible |-> FALSE, eload |-> "loading",
     lis |-> "cur", oload |-> "none", missed |-> FALSE,
     pendCur |-> 0, pendDet |-> 0, replay |-> FALSE]

Mounted == 1..Len(audioFiles)

isActive(i) == activeAudioIndex = i

\* The six fields of the PlaybackState of an item.
PlaybackState(w) ==
    [isPlaying |-> w.isPlaying, currentTime |-> w.currentTime,
     duration |-> w.duration, volume |-> w.volume,
     isLoading |-> w.isLoading, hasError |-> w.hasError]

\* The render that follows a state change of one widget.  Entering the error
\* render removes the <audio> element: the browser pauses it, the listeners
\* stay on the removed element, the invocations in flight keep their
\* reference to it.  Leaving the error render mounts a fresh element.
Render(old, new) ==
    LET w == IF new.isPlaying THEN new ELSE [new EXCEPT !.missed = FALSE]
    IN  IF w.hasError /\ ~old.hasError
        THEN [w EXCEPT !.audible = FALSE, !.audioTime = 0, !.eload = "none",
                       !.lis = IF w.lis = "cur" THEN "old" ELSE w.lis,
                       !.oload = IF w.lis = "cur" THEN w.eload ELSE w.oload,
                       !.pendDet = w.pendCur + w.pendDet, !.pendCur = 0]
        ELSE IF ~w.hasError /\ old.hasError
        THEN [w EXCEPT !.audible = FALSE, !.audioTime = 0, !.eload = "loading"]
        ELSE w

\* The listener effect running again (a dependency changed): the cleanup
\* removes the listeners from where they were; they are added to the
\* rendered element, if there is one.
Relisten(w) ==
    [w EXCEPT !.lis = IF w.hasError THEN "none" ELSE "cur", !.oload = "none"]

\* The effects of widget w after isActive changed: the active-state effect
\* finds no element in the error render, the listener effect runs again.
Reactivated(w, active) ==
    Relisten([w EXCEPT !.missed = ~active /\ w.isPlaying /\ w.hasError])

\* setActiveAudioIndex(new): isActive changes for at most two widgets.
SetActive(ws, new) ==
    [k \in Slots |->
        IF k \in Mounted /\ ((activeAudioIndex = k) # (new = k))
        THEN Reactivated(ws[k], new = k)
        ELSE ws[k]]

\* The active-state effect of widget i has work to do.
ActiveEffectDue(i) ==
    /\ i \in Mounted
    /\ ~isActive(i)
    /\ widget[i].isPlaying
    /\ ~widget[i].hasError
    /\ ~widget[i].missed

EffectPending == \E i \in Slots : ActiveEffectDue(i)

\* Nothing is about to happen by itself: no effect is due, no play() promise
\* of handleEnded or handleRestart is pending (it settles within the task
\* that follows), no removed element is playing (it plays to its end, heard
\* and without effect on anything else).  The model lets these happen before
\* the next user action or media event.  Nothing at all happens while the
\* alert of processFiles is open.
Quiet ==
    /\ ~alert
    /\ ~EffectPending
    /\ ~ghost
    /\ \A k \in Slots : ~widget[k].replay

\* The load progress of the element the listeners of w are on.
Heard(w) ==
    IF w.lis = "cur" THEN w.eload ELSE IF w.lis = "old" THEN w.oload ELSE "none"

\* w with that load progress set to v.
Hear(w, v) ==
    IF w.lis = "cur" THEN [w EXCEPT !.eload = v] ELSE [w EXCEPT !.oload = v]

Init ==
    /\ audioFiles = <<>>
    /\ activeAudioIndex = NoIndex
    /\ widget = [k \in Slots |-> InitWidget]
    /\ pendDead = 0
    /\ ghost = FALSE
    /\ faults = 0
    /\ alert = FALSE
    /\ fileList = <<>>
    /\ objectUrls = [of |-> [k \in Slots |-> NoUrl], revoked |-> <<>>]
    /\ timeLabel = [time |-> Seconds(0), text |-> formatTime(Seconds(0))]

(***************************************************************************)
(* AudioManager.                                                           *)
(***************************************************************************)
\* The handlePlay invocations in flight in the widgets of slots S.
RECURSIVE InFlight(_)
InFlight(S) ==
    IF S = {} THEN 0
    ELSE LET k == CHOOSE k \in S : TRUE
         IN  widget[k].pendCur + widget[k].pendDet + InFlight(S \ {k})

\* Every widget is unmounted: elements leave the document (paused), the
\* invocations in flight go on with their captured element.
Unmounted ==
    /\ widget' = [k \in Slots |-> InitWidget]
    /\ pendDead' = pendDead + InFlight(Slots)
    /\ UNCHANGED <<ghost, faults, alert>>

\* A processFiles without the return after the alert: onFilesSelected is
\* called with the empty list.  The intake contract must tell it from Intake.
IntakeCallingBack(sel) ==
    /\ Quiet
    /\ Len(audioFiles) = 0
    /\ pendDead = 0
    /\ LET sortedFiles == processFiles(sel)
       IN  /\ alert' = (sortedFiles = <<>>)
           /\ audioFiles' = sortedFiles
           /\ activeAudioIndex' = NoIndex
           /\ widget' = [k \in Slots |-> InitWidget]
    /\ UNCHANGED <<pendDead, ghost, faults>>

\* FileSelector.processFiles followed by handleFilesSelected.  The selector
\* is rendered only while the playlist is empty.  The invocations the
\* unmounted widgets left in flight (a settle delay and a play call long) act
\* on nothing but their removed elements; the model lets them settle before
\* the picker returns.  A selection without audio files raises the alert and
\* onFilesSelected is not called.
Intake(sel) ==
    /\ Quiet
    /\ Len(audioFiles) = 0
    /\ pendDead = 0
    /\ LET sortedFiles == processFiles(sel)
       IN  IF sortedFiles = <<>>
           THEN /\ alert' = TRUE
                /\ UNCHANGED <<audioFiles, activeAudioIndex, widget>>
           ELSE /\ audioFiles' = sortedFiles
                /\ activeAudioIndex' = NoIndex
                /\ widget' = [k \in Slots |-> InitWidget]
                /\ UNCHANGED alert
    /\ UNCHANGED <<pendDead, ghost, faults>>

SelectFiles(sel) ==
    /\ Intake(sel)
    /\ UNCHANGED <<fileList, objectUrls, timeLabel>>

\* The user dismisses the alert.
DismissAlert ==
    /\ alert
    /\ alert' = FALSE
    /\ UNCHANGED <<audioFiles, activeAudioIndex, widget, pendDead, ghost,
                   faults, fileList, objectUrls, timeLabel>>

handleStopAll ==
    /\ Quiet
    /\ Len(audioFiles) > 0
    /\ widget' = SetActive(widget, NoIndex)
    /\ activeAudioIndex' = NoIndex
    /\ UNCHANGED <<audioFiles, pendDead, ghost, faults, alert, fileList, objectUrls, timeLabel>>

\* handleClearAll, but for the object URLs.
ClearAll ==
    /\ Quiet
    /\ Len(audioFiles) > 0
    /\ audioFiles' = <<>>
    /\ activeAudioIndex' = NoIndex
    /\ Unmounted

handleClearAll ==
    /\ ClearAll
    /\ UNCHANGED <<fileList, objectUrls, timeLabel>>

\* The Load New Files button: setAudioFiles([]) and nothing else.  LoadNew
\* is the step but for the object URLs.
LoadNew ==
    /\ Quiet
    /\ Len(audioFiles) > 0
    /\ audioFiles' = <<>>
    /\ UNCHANGED activeAudioIndex
    /\ Unmounted

LoadNewFiles ==
    /\ LoadNew
    /\ UNCHANGED <<fileList, objectUrls, timeLabel>>

(***************************************************************************)
(* AudioContainer (src/unnamed/part_000, lines 238-625).                   *)
(***************************************************************************)
\* The widget function with slot i replaced by the render of new.
Put(i, new) == [widget EXCEPT ![i] = Render(widget[i], new)]

Pending(i) == widget[i].pendCur + widget[i].pendDet

\* An element in this load progress can start playing.
Playable(w) == w.eload \in {"meta", "loaded"}

\* handlePlay up to its first await: the guard, then onPlay(index).  The
\* button runs handlePlay when isPlaying is false and is disabled while
\* loading or in error.
\* A handlePlay without the check of hasError and isLoading: the refusal
\* of play requests must tell it from handlePlay.
handlePlayUnguarded(i) ==
    /\ Quiet
    /\ i \in Mounted
    /\ ~widget[i].isPlaying
    /\ Pending(i) < MaxPending
    /\ widget' = SetActive([widget EXCEPT ![i].pendCur = @ + 1], i)
    /\ activeAudioIndex' = i
    /\ UNCHANGED <<audioFiles, pendDead, ghost, faults, alert, fileList, objectUrls, timeLabel>>

\* handlePlay on an item that is loading or in error: the early return.
handlePlayRefused(i) ==
    /\ Quiet
    /\ i \in Mounted
    /\ widget[i].hasError \/ widget[i].isLoading
    /\ UNCHANGED vars

handlePlay(i) ==
    /\ Quiet
    /\ i \in Mounted
    /\ ~widget[i].isPlaying
    /\ ~widget[i].hasError /\ ~widget[i].isLoading
    /\ Pending(i) < MaxPending
    /\ widget' = SetActive([widget EXCEPT ![i].pendCur = @ + 1], i)
    /\ activeAudioIndex' = i
    /\ UNCHANGED <<audioFiles, pendDead, ghost, faults, alert, fileList, objectUrls, timeLabel>>

\* handlePlay after the settle delay and `await audio.play()`: the play call
\* succeeded on the rendered element.
PlayResolved(i) ==
    /\ Quiet
    /\ i \in Mounted
    /\ widget[i].pendCur > 0
    /\ Playable(widget[i])
    /\ widget' = Put(i, [widget[i] EXCEPT !.pendCur = @ - 1, !.audible = TRUE,
                                          !.isPlaying = TRUE, !.hasError = FALSE])
    /\ UNCHANGED <<audioFiles, activeAudioIndex, pendDead, ghost, faults, alert, fileList, objectUrls, timeLabel>>

\* The same on an element the error render has removed: the removed element
\* plays, the widget's state is set all the same.
PlayResolvedDetached(i) ==
    /\ Quiet
    /\ i \in Mounted
    /\ widget[i].pendDet > 0
    /\ widget' = Put(i, [widget[i] EXCEPT !.pendDet = @ - 1,
                                          !.isPlaying = TRUE, !.hasError = FALSE])
    /\ ghost' = TRUE
    /\ UNCHANGED <<audioFiles, activeAudioIndex, pendDead, faults, alert, fileList, objectUrls, timeLabel>>

\* The same after the widget was unmounted: the element plays, the state
\* updates of the unmounted component are dropped.
PlayResolvedUnmounted ==
    /\ Quiet
    /\ pendDead > 0
    /\ pendDead' = pendDead - 1
    /\ ghost' = TRUE
    /\ UNCHANGED <<audioFiles, activeAudioIndex, widget, faults, alert, fileList, objectUrls, timeLabel>>

\* The catch of handlePlay: the play call was rejected; audio.load() is
\* called on the captured element.
\* A handlePlay whose catch does not call audio.load(): the automatic reload
\* must tell it from PlayRejected.
PlayRejectedNoReload(i) ==
    /\ Quiet
    /\ faults < MaxFaults
    /\ faults' = faults + 1
    /\ i \in Mounted
    /\ widget[i].pendCur > 0
    /\ widget' = Put(i, [widget[i] EXCEPT !.pendCur = @ - 1,
                                          !.isPlaying = FALSE, !.hasError = TRUE])
    /\ UNCHANGED <<audioFiles, activeAudioIndex, pendDead, ghost, alert, fileList, objectUrls, timeLabel>>

PlayRejected(i) ==
    /\ Quiet
    /\ faults < MaxFaults
    /\ faults' = faults + 1
    /\ i \in Mounted
    /\ widget[i].pendCur > 0
    /\ widget' = Put(i, [widget[i] EXCEPT !.pendCur = @ - 1, !.eload = "start",
                                          !.isPlaying = FALSE, !.hasError = TRUE])
    /\ UNCHANGED <<audioFiles, activeAudioIndex, pendDead, ghost, alert, fileList, objectUrls, timeLabel>>

PlayRejectedDetached(i) ==
    /\ Quiet
    /\ i \in Mounted
    /\ widget[i].pendDet > 0
    /\ widget' = Put(i, [widget[i] EXCEPT
                            !.pendDet = @ - 1,
                            !.oload = IF widget[i].lis = "old" THEN "start" ELSE @,
                            !.isPlaying = FALSE, !.hasError = TRUE])
    /\ UNCHANGED <<audioFiles, activeAudioIndex, pendDead, ghost, faults, alert, fileList, objectUrls, timeLabel>>

PlayRejectedUnmounted ==
    /\ Quiet
    /\ pendDead > 0
    /\ pendDead' = pendDead - 1
    /\ UNCHANGED <<audioFiles, activeAudioIndex, widget, ghost, faults, alert, fileList, objectUrls, timeLabel>>

\* handlePause: the button runs it when isPlaying is true.
handlePause(i) ==
    /\ Quiet
    /\ i \in Mounted
    /\ widget[i].isPlaying
    /\ ~widget[i].hasError /\ ~widget[i].isLoading
    /\ widget' = SetActive([widget EXCEPT ![i].audible = FALSE,
                                          ![i].isPlaying = FALSE,
                                          ![i].missed = FALSE], NoIndex)
    /\ activeAudioIndex' = NoIndex
    /\ UNCHANGED <<audioFiles, pendDead, ghost, faults, alert, fileList, objectUrls, timeLabel>>

\* An active-state effect that pauses the element and omits
\* setIsPlaying(false): the hand-over of playback must tell it from the
\* effect.
ActiveEffectKeepingFlag(i) ==
    /\ ActiveEffectDue(i)
    /\ widget' = [widget EXCEPT ![i].audible = FALSE]
    /\ UNCHANGED <<audioFiles, activeAudioIndex, pendDead, ghost, faults, alert, fileList, objectUrls, timeLabel>>

\* An active-state effect that also rewinds the element: the pause of a
\* deactivated item must tell it from the effect.
ActiveEffectRewinding(i) ==
    /\ ActiveEffectDue(i)
    /\ widget' = [widget EXCEPT ![i].audible = FALSE, ![i].isPlaying = FALSE,
                                ![i].audioTime = 0, ![i].currentTime = 0]
    /\ UNCHANGED <<audioFiles, activeAudioIndex, pendDead, ghost, faults, alert, fileList, objectUrls, timeLabel>>

\* The active-state effect: if (!isActive && isPlaying) and the element is
\* rendered, pause it and clear isPlaying.
ActiveEffect(i) ==
    /\ ActiveEffectDue(i)
    /\ widget' = [widget EXCEPT ![i].audible = FALSE, ![i].isPlaying = FALSE]
    /\ UNCHANGED <<audioFiles, activeAudioIndex, pendDead, ghost, faults, alert, fileList, objectUrls, timeLabel>>

\* handleRestart; the button is disabled while loading or in error.
\* A handleRestart that calls onPlay(index) as handlePlay does: the frame of
\* restart must tell it from handleRestart.
handleRestartActivating(i) ==
    /\ Quiet
    /\ i \in Mounted
    /\ ~widget[i].hasError /\ ~widget[i].isLoading
    /\ widget' = SetActive([widget EXCEPT
                    ![i].audioTime = 0,
                    ![i].audible = IF widget[i].isPlaying /\ Playable(widget[i])
                                   THEN TRUE ELSE @,
                    ![i].replay = widget[i].isPlaying], i)
    /\ activeAudioIndex' = i
    /\ UNCHANGED <<audioFiles, pendDead, ghost, faults, alert, fileList, objectUrls, timeLabel>>

\* handleRestart on an item in error: the early return.
handleRestartRefused(i) ==
    /\ Quiet
    /\ i \in Mounted
    /\ widget[i].hasError
    /\ UNCHANGED vars

handleRestart(i) ==
    /\ Quiet
    /\ i \in Mounted
    /\ ~widget[i].hasError /\ ~widget[i].isLoading
    /\ widget' = [widget EXCEPT
                    ![i].audioTime = 0,
                    ![i].audible = IF widget[i].isPlaying /\ Playable(widget[i])
                                   THEN TRUE ELSE @,
                    ![i].replay = widget[i].isPlaying]
    /\ UNCHANGED <<audioFiles, activeAudioIndex, pendDead, ghost, faults, alert, fileList, objectUrls, timeLabel>>

\* handleRestart when the element throws: the outer catch.
RestartThrows(i) ==
    /\ Quiet
    /\ faults < MaxFaults
    /\ faults' = faults + 1
    /\ i \in Mounted
    /\ ~widget[i].hasError /\ ~widget[i].isLoading
    /\ widget' = Put(i, [widget[i] EXCEPT !.hasError = TRUE])
    /\ UNCHANGED <<audioFiles, activeAudioIndex, pendDead, ghost, alert, fileList, objectUrls, timeLabel>>

\* The play() promise of handleEnded or handleRestart resolves: no handler.
ReplayResolved(i) ==
    /\ ~EffectPending
    /\ i \in Mounted
    /\ widget[i].replay
    /\ widget' = [widget EXCEPT ![i].replay = FALSE]
    /\ UNCHANGED <<audioFiles, activeAudioIndex, pendDead, ghost, faults, alert, fileList, objectUrls, timeLabel>>

\* ... or is rejected: the .catch of handleEnded and of handleRestart.
ReplayRejected(i) ==
    /\ ~EffectPending
    /\ faults < MaxFaults
    /\ faults' = faults + 1
    /\ i \in Mounted
    /\ widget[i].replay
    /\ widget' = Put(i, [widget[i] EXCEPT !.replay = FALSE,
                                          !.isPlaying = FALSE, !.hasError = TRUE])
    /\ UNCHANGED <<audioFiles, activeAudioIndex, pendDead, ghost, alert, fileList, objectUrls, timeLabel>>

\* Playback of the rendered element advances; the timeupdate event the
\* element fires with it runs handleTimeUpdate if the element is listened to.
Tick(i) ==
    /\ Quiet
    /\ i \in Mounted
    /\ widget[i].audible
    /\ widget[i].audioTime < Dur
    /\ widget' = [widget EXCEPT
                    ![i].audioTime = @ + 1,
                    ![i].currentTime = IF widget[i].lis = "cur"
                                       THEN widget[i].audioTime + 1 ELSE @]
    /\ UNCHANGED <<audioFiles, activeAudioIndex, pendDead, ghost, faults, alert, fileList, objectUrls, timeLabel>>

\* handleTimeUpdate after a jump of the position (the timeupdate event that
\* follows a seek), on the element listened to.
handleTimeUpdate(i) ==
    /\ Quiet
    /\ i \in Mounted
    /\ widget[i].lis = "cur"
    /\ widget[i].currentTime # widget[i].audioTime
    /\ widget' = [widget EXCEPT ![i].currentTime = widget[i].audioTime]
    /\ UNCHANGED <<audioFiles, activeAudioIndex, pendDead, ghost, faults, alert, fileList, objectUrls, timeLabel>>

\* handleEnded: the rendered element reached its end and is listened to.
handleEnded(i) ==
    /\ Quiet
    /\ i \in Mounted
    /\ widget[i].lis = "cur"
    /\ widget[i].audible
    /\ widget[i].audioTime = Dur
    /\ widget' = IF isActive(i)
                 THEN [widget EXCEPT ![i].audioTime = 0, ![i].replay = TRUE]
                 ELSE [widget EXCEPT ![i].audible = FALSE]
    /\ UNCHANGED <<audioFiles, activeAudioIndex, pendDead, ghost, faults, alert, fileList, objectUrls, timeLabel>>

\* The rendered element reaches its end with no listener on it: playback
\* stops (loop={false}) and no handler runs.
EndedUnheard(i) ==
    /\ Quiet
    /\ i \in Mounted
    /\ widget[i].lis # "cur"
    /\ widget[i].audible
    /\ widget[i].audioTime = Dur
    /\ widget' = [widget EXCEPT ![i].audible = FALSE]
    /\ UNCHANGED <<audioFiles, activeAudioIndex, pendDead, ghost, faults, alert, fileList, objectUrls, timeLabel>>

\* The removed elements that play have reached their end (loop={false}).
GhostEnded ==
    /\ ~EffectPending
    /\ ghost
    /\ ghost' = FALSE
    /\ UNCHANGED <<audioFiles, activeAudioIndex, widget, pendDead, faults, alert, fileList, objectUrls, timeLabel>>

\* handleProgressClick; x is (clickX / rect.width) * duration.
handleProgressClick(i, x) ==
    /\ Quiet
    /\ i \in Mounted
    /\ ~widget[i].hasError
    /\ widget[i].duration # 0
    /\ LET newTime ==
              IF x < 0 THEN 0
              ELSE IF x > widget[i].duration THEN widget[i].duration ELSE x
       IN  widget' = [widget EXCEPT ![i].audioTime = newTime,
                                    ![i].currentTime = newTime]
    /\ UNCHANGED <<audioFiles, activeAudioIndex, pendDead, ghost, faults, alert, fileList, objectUrls, timeLabel>>

\* handleProgressClick when the element throws: the catch.
SeekThrows(i) ==
    /\ Quiet
    /\ faults < MaxFaults
    /\ faults' = faults + 1
    /\ i \in Mounted
    /\ ~widget[i].hasError
    /\ widget[i].duration # 0
    /\ widget' = Put(i, [widget[i] EXCEPT !.hasError = TRUE])
    /\ UNCHANGED <<audioFiles, activeAudioIndex, pendDead, ghost, alert, fileList, objectUrls, timeLabel>>

\* handleVolumeChange; volume is a dependency of the listener effect.
handleVolumeChange(i, v) ==
    /\ Quiet
    /\ i \in Mounted
    /\ ~widget[i].hasError
    /\ v # widget[i].volume
    /\ widget' = [widget EXCEPT ![i] = Relisten([widget[i] EXCEPT !.volume = v])]
    /\ UNCHANGED <<audioFiles, activeAudioIndex, pendDead, ghost, faults, alert, fileList, objectUrls, timeLabel>>

\* handleLoadStart: audio.load() was called on the element listened to.
handleLoadStart(i) ==
    /\ Quiet
    /\ i \in Mounted
    /\ Heard(widget[i]) = "start"
    /\ widget' = Put(i, [Hear(widget[i], "loading") EXCEPT
                            !.isLoading = TRUE, !.hasError = FALSE])
    /\ UNCHANGED <<audioFiles, activeAudioIndex, pendDead, ghost, faults, alert, fileList, objectUrls, timeLabel>>

handleLoadedMetadata(i) ==
    /\ Quiet
    /\ i \in Mounted
    /\ Heard(widget[i]) = "loading"
    /\ widget' = Put(i, [Hear(widget[i], "meta") EXCEPT
                            !.duration = Dur,
                            !.isLoading = FALSE, !.hasError = FALSE])
    /\ UNCHANGED <<audioFiles, activeAudioIndex, pendDead, ghost, faults, alert, fileList, objectUrls, timeLabel>>

handleCanPlay(i) ==
    /\ Quiet
    /\ i \in Mounted
    /\ Heard(widget[i]) = "meta"
    /\ widget' = Put(i, [Hear(widget[i], "loaded") EXCEPT
                            !.isLoading = FALSE, !.hasError = FALSE])
    /\ UNCHANGED <<audioFiles, activeAudioIndex, pendDead, ghost, faults, alert, fileList, objectUrls, timeLabel>>

\* A handleError that also calls onStop(): the locality of failures must
\* tell it from handleError.
handleErrorStopping(i) ==
    /\ Quiet
    /\ faults < MaxFaults
    /\ faults' = faults + 1
    /\ i \in Mounted
    /\ Heard(widget[i]) \in {"loading", "meta", "loaded"}
    /\ widget' = Put(i, [Hear(widget[i], "failed") EXCEPT
                            !.hasError = TRUE, !.isLoading = FALSE,
                            !.isPlaying = FALSE])
    /\ activeAudioIndex' = NoIndex
    /\ UNCHANGED <<audioFiles, pendDead, ghost, alert, fileList, objectUrls, timeLabel>>

\* A handleError that also takes the failed item out of the playlist: the
\* playlist invariant must tell it from handleError.
handleErrorDropping(i) ==
    /\ Quiet
    /\ faults < MaxFaults
    /\ faults' = faults + 1
    /\ i \in Mounted
    /\ Heard(widget[i]) \in {"loading", "meta", "loaded"}
    /\ widget' = Put(i, [Hear(widget[i], "failed") EXCEPT
                            !.hasError = TRUE, !.isLoading = FALSE,
                            !.isPlaying = FALSE])
    /\ audioFiles' = SubSeq(audioFiles, 1, i - 1)
                        \o SubSeq(audioFiles, i + 1, Len(audioFiles))
    /\ UNCHANGED <<activeAudioIndex, pendDead, ghost, alert, fileList, objectUrls, timeLabel>>

\* handleError: the element listened to reports a media error.
handleError(i) ==
    /\ Quiet
    /\ faults < MaxFaults
    /\ faults' = faults + 1
    /\ i \in Mounted
    /\ Heard(widget[i]) \in {"loading", "meta", "loaded"}
    /\ widget' = Put(i, [Hear(widget[i], "failed") EXCEPT
                            !.hasError = TRUE, !.isLoading = FALSE,
                            !.isPlaying = FALSE])
    /\ UNCHANGED <<audioFiles, activeAudioIndex, pendDead, ghost, alert, fileList, objectUrls, timeLabel>>

\* The rendered element, with no listener on it, goes on loading: its
\* loadedmetadata and canplay events run no handler.
LoadUnheard(i) ==
    /\ Quiet
    /\ i \in Mounted
    /\ widget[i].lis # "cur"
    /\ widget[i].eload \in {"loading", "meta"}
    /\ widget' = [widget EXCEPT
                    ![i].eload = IF @ = "loading" THEN "meta" ELSE "loaded"]
    /\ UNCHANGED <<audioFiles, activeAudioIndex, pendDead, ghost, faults, alert, fileList, objectUrls, timeLabel>>

\* The rendered element, with no listener on it, reports a media error: no
\* handler runs.
ErrorUnheard(i) ==
    /\ Quiet
    /\ i \in Mounted
    /\ widget[i].lis # "cur"
    /\ widget[i].eload \in {"loading", "meta", "loaded"}
    /\ widget' = [widget EXCEPT ![i].eload = "failed", ![i].audible = FALSE]
    /\ UNCHANGED <<audioFiles, activeAudioIndex, pendDead, ghost, faults, alert, fileList, objectUrls, timeLabel>>

\* A Try Again that also puts the volume back to 1: the frame of the volume
\* must tell it from TryAgain.
TryAgainResettingVolume(i) ==
    /\ Quiet
    /\ i \in Mounted
    /\ widget[i].hasError
    /\ widget' = Put(i, [widget[i] EXCEPT !.hasError = FALSE, !.isLoading = TRUE,
                                          !.volume = 1])
    /\ UNCHANGED <<audioFiles, activeAudioIndex, pendDead, ghost, faults, alert, fileList, objectUrls, timeLabel>>

\* The Try Again button of the error render.  audioRef.current is null in
\* the error render, so audio.load() is not called.
TryAgain(i) ==
    /\ Quiet
    /\ i \in Mounted
    /\ widget[i].hasError
    /\ widget' = Put(i, [widget[i] EXCEPT !.hasError = FALSE, !.isLoading = TRUE])
    /\ UNCHANGED <<audioFiles, activeAudioIndex, pendDead, ghost, faults, alert, fileList, objectUrls, timeLabel>>

(***************************************************************************)
(* Intake alone: selections from the larger set of files, each followed by *)
(* giving the playlist up again.  fileList records the selection.  No      *)
(* widget is operated, so the widgets stay as mounted.                     *)
(***************************************************************************)
RecordedIntake(sel) ==
    /\ Intake(sel)
    /\ fileList' = sel
    /\ UNCHANGED <<objectUrls, timeLabel>>

NextIntake ==
    \/ \E sel \in IntakeSelections : RecordedIntake(sel)
    \/ DismissAlert
    \/ handleClearAll
    \/ LoadNewFiles

SpecIntake == Init /\ [][NextIntake]_vars

(***************************************************************************)
(* The object URLs.  The URL effect of a widget (dependencies [file]) runs *)
(* once after the widget is mounted: URL.createObjectURL(file) returns a   *)
(* URL not handed out before, kept in audioUrl.  Its cleanup runs when the *)
(* widget is unmounted and hands that URL to URL.revokeObjectURL.  The     *)
(* error render and Try Again leave audioUrl alone.  The specification     *)
(* follows the URLs through selections, playback, failures and the two     *)
(* ways of giving the playlist up, for as many URLs as MaxUrls allows.     *)
(***************************************************************************)
MaxUrls == 4

\* The URL effects as one that hands every widget the URL made for the
\* first: the lifecycle of the URLs must tell it from CreateUrls.
CreateUrlsShared(n) ==
    objectUrls' =
        [of |-> [k \in Slots |->
                    IF k <= n THEN Len(objectUrls.revoked) + 1 ELSE NoUrl],
         revoked |-> objectUrls.revoked \o [k \in 1..n |-> 0]]

\* The URL effects of the n widgets just mounted.
CreateUrls(n) ==
    objectUrls' =
        [of |-> [k \in Slots |->
                    IF k <= n THEN Len(objectUrls.revoked) + k ELSE NoUrl],
         revoked |-> objectUrls.revoked \o [k \in 1..n |-> 0]]

\* The cleanups of the URL effects of the widgets being unmounted.
RevokeUrls ==
    objectUrls' =
        [of |-> [k \in Slots |-> NoUrl],
         revoked |-> [u \in DOMAIN objectUrls.revoked |->
                        objectUrls.revoked[u]
                        + Cardinality({ k \in Mounted : objectUrls.of[k] = u })]]

SelectFilesMounting(sel) ==
    /\ Intake(sel)
    /\ Len(objectUrls.revoked) + Len(processFiles(sel)) <= MaxUrls
    /\ CreateUrls(Len(processFiles(sel)))
    /\ UNCHANGED <<fileList, timeLabel>>

handleClearAllUnmounting ==
    /\ ClearAll
    /\ RevokeUrls
    /\ UNCHANGED <<fileList, timeLabel>>

LoadNewFilesUnmounting ==
    /\ LoadNew
    /\ RevokeUrls
    /\ UNCHANGED <<fileList, timeLabel>>

NextUrl ==
    \/ \E sel \in Selections : SelectFilesMounting(sel)
    \/ DismissAlert
    \/ handleClearAllUnmounting
    \/ LoadNewFilesUnmounting
    \/ handleStopAll
    \/ \E i \in Slots :
          \/ handlePlay(i)
          \/ PlayResolved(i)
          \/ PlayResolvedUnmounted
          \/ handlePause(i)
          \/ ActiveEffect(i)
          \/ handleLoadedMetadata(i)
          \/ handleCanPlay(i)
          \/ handleError(i)
          \/ TryAgain(i)
          \/ LoadUnheard(i)

SpecUrl == Init /\ [][NextUrl]_vars

(***************************************************************************)
(* The time labels alone: the widget renders formatTime(currentTime) and   *)
(* formatTime(duration).                                                   *)
(***************************************************************************)
RenderTime(time) ==
    /\ timeLabel' = [time |-> time, text |-> formatTime(time)]
    /\ UNCHANGED <<audioFiles, activeAudioIndex, widget, pendDead, ghost,
                   faults, alert, fileList, objectUrls>>

NextFormat == \E time \in Times : RenderTime(time)

SpecFormat == Init /\ [][NextFormat]_vars

(***************************************************************************)
(* The player: AudioManager with its AudioContainers.                      *)
(***************************************************************************)
Next ==
    \/ \E sel \in Selections : SelectFiles(sel)
    \/ DismissAlert
    \/ handleStopAll
    \/ handleClearAll
    \/ LoadNewFiles
    \/ PlayResolvedUnmounted
    \/ PlayRejectedUnmounted
    \/ GhostEnded
    \/ \E i \in Slots :
          \/ handlePlayRefused(i)
          \/ handlePlay(i)
          \/ PlayResolved(i)
          \/ PlayResolvedDetached(i)
          \/ PlayRejected(i)
          \/ PlayRejectedDetached(i)
          \/ handlePause(i)
          \/ ActiveEffect(i)
          \/ handleRestartRefused(i)
          \/ handleRestart(i)
          \/ RestartThrows(i)
          \/ ReplayResolved(i)
          \/ ReplayRejected(i)
          \/ Tick(i)
          \/ handleTimeUpdate(i)
          \/ handleEnded(i)
          \/ EndedUnheard(i)
          \/ \E x \in -1..(Dur + 1) : handleProgressClick(i, x)
          \/ SeekThrows(i)
          \/ \E v \in VolumeLevels : handleVolumeChange(i, v)
          \/ handleLoadStart(i)
          \/ handleLoadedMetadata(i)
          \/ handleCanPlay(i)
          \/ handleError(i)
          \/ LoadUnheard(i)
          \/ ErrorUnheard(i)
          \/ TryAgain(i)

Spec == Init /\ [][Next]_vars

(***************************************************************************)
(* The hand-over of playback, without errors: the user acts only when no   *)
(* play call is in flight, no media element fails.  The effects of React   *)
(* run, and a play call that is not rejected is resolved.                  *)
(***************************************************************************)
HandoffBusy == \E k \in Slots : Pending(k) > 0

NextHandoff ==
    \/ ~HandoffBusy /\ \E sel \in Selections : SelectFiles(sel)
    \/ DismissAlert
    \/ ~HandoffBusy /\ handleStopAll
    \/ ~HandoffBusy /\ handleClearAll
    \/ ~HandoffBusy /\ LoadNewFiles
    \/ ~HandoffBusy /\ \E i \in Slots : handlePlay(i)
    \/ ~HandoffBusy /\ \E i \in Slots : handlePause(i)
    \/ ~HandoffBusy /\ \E i \in Slots : handleRestart(i)
    \/ ~HandoffBusy /\ \E i \in Slots : \E x \in -1..(Dur + 1) :
                           handleProgressClick(i, x)
    \/ ~HandoffBusy /\ \E i \in Slots : \E v \in VolumeLevels :
                           handleVolumeChange(i, v)
    \/ \E i \in Slots :
          \/ ActiveEffect(i)
          \/ PlayResolved(i)
          \/ ReplayResolved(i)
          \/ Tick(i)
          \/ handleTimeUpdate(i)
          \/ handleEnded(i)
          \/ handleLoadedMetadata(i)
          \/ handleCanPlay(i)

SpecHandoff ==
    /\ Init
    /\ [][NextHandoff]_vars
    /\ \A i \in Slots : WF_vars(ActiveEffect(i)) /\ WF_vars(PlayResolved(i))

(***************************************************************************)
(* The self-contained player of src/src/pages/Index.tsx: its own           *)
(* AudioContainer, with isPlaying, currentTime and duration for state, no  *)
(* loading or error state and no settle delay, and its own manager.  The   *)
(* widget record is the same; isLoading and hasError stay FALSE, the       *)
(* element is always rendered with the listeners on it, and volume is the  *)
(* volume of the element, which the mute button toggles.                   *)
(***************************************************************************)
IndexInitWidget == [InitWidget EXCEPT !.isLoading = FALSE]

IndexUnmounted ==
    /\ widget' = [k \in Slots |-> IndexInitWidget]
    /\ pendDead' = pendDead + InFlight(Slots)
    /\ UNCHANGED <<ghost, faults, alert, fileList, objectUrls, timeLabel>>

\* FileSelector.processFiles of Index.tsx, the same code as that of the
\* FileSelector component, followed by Index.handleFilesSelected.
IndexSelectFiles(sel) ==
    /\ Quiet
    /\ Len(audioFiles) = 0
    /\ pendDead = 0
    /\ LET sortedFiles == processFiles(sel)
       IN  IF sortedFiles = <<>>
           THEN /\ alert' = TRUE
                /\ UNCHANGED <<audioFiles, activeAudioIndex, widget>>
           ELSE /\ audioFiles' = sortedFiles
                /\ activeAudioIndex' = NoIndex
                /\ widget' = [k \in Slots |-> IndexInitWidget]
                /\ UNCHANGED alert
    /\ UNCHANGED <<pendDead, ghost, faults, fileList, objectUrls, timeLabel>>

IndexStopAll ==
    /\ Quiet
    /\ Len(audioFiles) > 0
    /\ activeAudioIndex' = NoIndex
    /\ UNCHANGED <<audioFiles, widget, pendDead, ghost, faults, alert, fileList, objectUrls, timeLabel>>

IndexClearAll ==
    /\ Quiet
    /\ Len(audioFiles) > 0
    /\ audioFiles' = <<>>
    /\ activeAudioIndex' = NoIndex
    /\ IndexUnmounted

IndexLoadNewFiles ==
    /\ Quiet
    /\ Len(audioFiles) > 0
    /\ audioFiles' = <<>>
    /\ UNCHANGED activeAudioIndex
    /\ IndexUnmounted

\* handlePlay up to its await: onPlay(index), then audio.play().
IndexHandlePlay(i) ==
    /\ Quiet
    /\ i \in Mounted
    /\ ~widget[i].isPlaying
    /\ Pending(i) < MaxPending
    /\ widget' = [widget EXCEPT ![i].pendCur = @ + 1]
    /\ activeAudioIndex' = i
    /\ UNCHANGED <<audioFiles, pendDead, ghost, faults, alert, fileList, objectUrls, timeLabel>>

\* handlePlay after `await audio.play()`: setIsPlaying(true).
IndexPlayResolved(i) ==
    /\ Quiet
    /\ i \in Mounted
    /\ widget[i].pendCur > 0
    /\ Playable(widget[i])
    /\ widget' = [widget EXCEPT ![i].pendCur = @ - 1, ![i].audible = TRUE,
                                ![i].isPlaying = TRUE]
    /\ UNCHANGED <<audioFiles, activeAudioIndex, pendDead, ghost, faults, alert, fileList, objectUrls, timeLabel>>

\* The body of handlePause: pause, setIsPlaying(false), onStop().
IndexPaused(i) ==
    /\ widget' = [widget EXCEPT ![i].audible = FALSE, ![i].isPlaying = FALSE]
    /\ activeAudioIndex' = NoIndex
    /\ UNCHANGED <<audioFiles, pendDead, ghost, faults, alert, fileList, objectUrls, timeLabel>>

\* handlePause from the button, which runs it when isPlaying is true.
IndexHandlePause(i) ==
    /\ Quiet
    /\ i \in Mounted
    /\ widget[i].isPlaying
    /\ IndexPaused(i)

\* The active-state effect: if (!isActive && isPlaying) handlePause().
IndexActiveEffect(i) ==
    /\ ActiveEffectDue(i)
    /\ IndexPaused(i)

\* handleRestart; the play call, when it is not rejected, keeps the element
\* playing, and its rejection is only logged.
IndexHandleRestart(i) ==
    /\ Quiet
    /\ i \in Mounted
    /\ widget' = [widget EXCEPT
                    ![i].audioTime = 0,
                    ![i].audible = IF widget[i].isPlaying /\ Playable(widget[i])
                                   THEN TRUE ELSE @]
    /\ UNCHANGED <<audioFiles, activeAudioIndex, pendDead, ghost, faults, alert, fileList, objectUrls, timeLabel>>

\* Playback advances; the timeupdate event runs handleTimeUpdate.
IndexTick(i) ==
    /\ Quiet
    /\ i \in Mounted
    /\ widget[i].audible
    /\ widget[i].audioTime < Dur
    /\ widget' = [widget EXCEPT ![i].audioTime = @ + 1,
                                ![i].currentTime = widget[i].audioTime + 1]
    /\ UNCHANGED <<audioFiles, activeAudioIndex, pendDead, ghost, faults, alert, fileList, objectUrls, timeLabel>>

\* handleTimeUpdate after a jump of the position.
IndexHandleTimeUpdate(i) ==
    /\ Quiet
    /\ i \in Mounted
    /\ widget[i].currentTime # widget[i].audioTime
    /\ widget' = [widget EXCEPT ![i].currentTime = widget[i].audioTime]
    /\ UNCHANGED <<audioFiles, activeAudioIndex, pendDead, ghost, faults, alert, fileList, objectUrls, timeLabel>>

\* handleEnded: seek to 0 and play again, whether active or not.
IndexHandleEnded(i) ==
    /\ Quiet
    /\ i \in Mounted
    /\ widget[i].audible
    /\ widget[i].audioTime = Dur
    /\ widget' = [widget EXCEPT ![i].audioTime = 0]
    /\ UNCHANGED <<audioFiles, activeAudioIndex, pendDead, ghost, faults, alert, fileList, objectUrls, timeLabel>>

IndexHandleLoadedMetadata(i) ==
    /\ Quiet
    /\ i \in Mounted
    /\ widget[i].eload = "loading"
    /\ widget' = [widget EXCEPT ![i].eload = "meta", ![i].duration = Dur]
    /\ UNCHANGED <<audioFiles, activeAudioIndex, pendDead, ghost, faults, alert, fileList, objectUrls, timeLabel>>

\* handleProgressClick: newTime is not clamped; the element clamps the
\* position it is given to its media.
IndexHandleProgressClick(i, x) ==
    /\ Quiet
    /\ i \in Mounted
    /\ widget[i].duration # 0
    /\ widget' = [widget EXCEPT
                    ![i].audioTime = IF x < 0 THEN 0 ELSE IF x > Dur THEN Dur ELSE x,
                    ![i].currentTime = x]
    /\ UNCHANGED <<audioFiles, activeAudioIndex, pendDead, ghost, faults, alert, fileList, objectUrls, timeLabel>>

\* The mute button: audio.volume = audio.volume === 0 ? 1 : 0.
IndexToggleMute(i) ==
    /\ Quiet
    /\ i \in Mounted
    /\ widget' = [widget EXCEPT ![i].volume = IF @ = 0 THEN 1 ELSE 0]
    /\ UNCHANGED <<audioFiles, activeAudioIndex, pendDead, ghost, faults, alert, fileList, objectUrls, timeLabel>>

\* The hand-over of playback in this player, without errors.
NextIndexHandoff ==
    \/ ~HandoffBusy /\ \E sel \in Selections : IndexSelectFiles(sel)
    \/ DismissAlert
    \/ ~HandoffBusy /\ IndexStopAll
    \/ ~HandoffBusy /\ IndexClearAll
    \/ ~HandoffBusy /\ IndexLoadNewFiles
    \/ ~HandoffBusy /\ \E i \in Slots : IndexHandlePlay(i)
    \/ ~HandoffBusy /\ \E i \in Slots : IndexHandlePause(i)
    \/ ~HandoffBusy /\ \E i \in Slots : IndexHandleRestart(i)
    \/ ~HandoffBusy /\ \E i \in Slots : \E x \in -1..(Dur + 1) :
                           IndexHandleProgressClick(i, x)
    \/ ~HandoffBusy /\ \E i \in Slots : IndexToggleMute(i)
    \/ \E i \in Slots :
          \/ IndexActiveEffect(i)
          \/ IndexPlayResolved(i)
          \/ IndexTick(i)
          \/ IndexHandleTimeUpdate(i)
          \/ IndexHandleEnded(i)
          \/ IndexHandleLoadedMetadata(i)

SpecIndexHandoff ==
    /\ Init
    /\ [][NextIndexHandoff]_vars
    /\ \A i \in Slots :
          /\ WF_vars(IndexActiveEffect(i))
          /\ WF_vars(IndexHandleLoadedMetadata(i))
          /\ WF_vars(IndexPlayResolved(i))

(***************************************************************************)
(* Properties of the player.                                               *)
(***************************************************************************)
\* The lifecycle state Playing of an item, as its widget shows it.
Playing(w) == w.isPlaying /\ ~w.hasError /\ ~w.isLoading

\* The items whose widget has isPlaying = true.
PlayingItems == { k \in Mounted : widget[k].isPlaying }

\* C1: in every reachable state at most one item's widget has
\* isPlaying = true.
C1_AtMostOnePlaying == Cardinality(PlayingItems) <= 1

\* C4: when the pending play of item i completes after play was requested on
\* a different item k (ActiveIndex names k), it neither sets ActiveIndex to
\* i, nor starts the audio of i, nor sets isPlaying of i.
C4_StalePlayDiscarded ==
    [][\A i \in Slots :
          (/\ i \in Mounted
           /\ Pending(i) > 0
           /\ activeAudioIndex \notin {i, NoIndex}
           /\ Pending(i)' < Pending(i))
          => /\ activeAudioIndex' # i
             /\ widget'[i].audible = widget[i].audible
             /\ widget'[i].isPlaying = widget[i].isPlaying
             /\ ghost' = ghost]_vars

\* C5: when the pending play of item i completes after Stop All (ActiveIndex
\* is none) or after Clear All / Load New Files (the widget is unmounted),
\* no audio is started and isPlaying of i is not set.
C5_LateResultDiscarded ==
    [][/\ \A i \in Slots :
            (/\ i \in Mounted
             /\ Pending(i) > 0
             /\ activeAudioIndex = NoIndex
             /\ Pending(i)' < Pending(i))
            => /\ widget'[i].audible = widget[i].audible
               /\ widget'[i].isPlaying = widget[i].isPlaying
               /\ ghost' = ghost
       /\ (pendDead > 0 /\ pendDead' < pendDead) => ghost' = ghost]_vars

\* C6: a play request on item i sets ActiveIndex to i; ActiveIndex is none
\* right after an item's pause action, Stop All, Clear All, Load New Files
\* and a successful file selection.
C6_ActiveIndexUpdates ==
    [][/\ \A i \in Slots : handlePlay(i) => activeAudioIndex' = i
       /\ \A i \in Slots : handlePause(i) => activeAudioIndex' = NoIndex
       /\ handleStopAll => activeAudioIndex' = NoIndex
       /\ handleClearAll => activeAudioIndex' = NoIndex
       /\ LoadNewFiles => activeAudioIndex' = NoIndex
       /\ \A sel \in Selections :
             (SelectFiles(sel) /\ processFiles(sel) # <<>>)
             => activeAudioIndex' = NoIndex]_vars

\* The rendered element of item i, playing, reaches the end of the media.
EndOfMedia(i) == handleEnded(i) \/ EndedUnheard(i)

\* C7: when the media of a playing item that is the active item ends, its
\* position is set to 0, playback goes on and isPlaying stays true.
C7_LoopsAtEnd ==
    [][\A i \in Slots :
          (Playing(widget[i]) /\ isActive(i) /\ EndOfMedia(i))
          => /\ widget'[i].audioTime = 0
             /\ widget'[i].audible
             /\ widget'[i].isPlaying]_vars

\* Item i stays mounted and no field of its PlaybackState but isPlaying
\* changes.
KeepsAllButIsPlaying(i) ==
    /\ widget'[i].currentTime = widget[i].currentTime
    /\ widget'[i].audioTime = widget[i].audioTime
    /\ widget'[i].duration = widget[i].duration
    /\ widget'[i].volume = widget[i].volume
    /\ widget'[i].isLoading = widget[i].isLoading
    /\ widget'[i].hasError = widget[i].hasError

Failure(i) ==
    \/ handleError(i)
    \/ ErrorUnheard(i)
    \/ PlayRejected(i)
    \/ PlayRejectedDetached(i)
    \/ ReplayRejected(i)
    \/ RestartThrows(i)
    \/ SeekThrows(i)

\* C9: a failure on item i changes no field of the PlaybackState of any
\* other item, and changes ActiveIndex at most from i to none.
C9_FailureIsLocal ==
    [][\A i \in Slots :
          Failure(i)
          => /\ \A k \in Slots \ {i} :
                   PlaybackState(widget'[k]) = PlaybackState(widget[k])
             /\ \/ activeAudioIndex' = activeAudioIndex
                \/ activeAudioIndex = i /\ activeAudioIndex' = NoIndex]_vars

\* C9, reached: item i is in error while another item is the active item and
\* plays.
C9_Witness ==
    \E i \in Mounted : \E k \in Mounted \ {i} :
        /\ widget[i].hasError
        /\ faults > 0
        /\ activeAudioIndex = k
        /\ widget[k].isPlaying /\ widget[k].audible

\* C10: every failure of the media element of an item leaves the item with
\* hasError = true.
C10_FailureShowsError ==
    [][\A i \in Slots : Failure(i) => widget'[i].hasError]_vars

\* Play has been requested on item i while item j plays.
HandoffRequested(i, j) ==
    /\ i \in Mounted /\ j \in Mounted
    /\ activeAudioIndex = i
    /\ widget[i].pendCur > 0
    /\ widget[j].isPlaying /\ widget[j].audible

\* Item j does not play, item i plays and is the active item.
HandoffDone(i, j) ==
    /\ ~widget[j].isPlaying /\ ~widget[j].audible
    /\ widget[i].isPlaying /\ widget[i].audible
    /\ activeAudioIndex = i

\* C2: in the AudioManager player, without errors and further user actions,
\* a play request on a Ready item i while item j plays leads to j not
\* playing and i playing as the active item.
C2_Handoff ==
    \A i \in Slots : \A j \in Slots \ {i} :
        HandoffRequested(i, j) ~> HandoffDone(i, j)

\* C2, reached: play was requested on a Ready item while the other plays.
C2_Witness ==
    \E i \in Slots : \E j \in Slots \ {i} :
        HandoffRequested(i, j) /\ Playable(widget[i]) /\ ~widget[i].isLoading

\* C3: in the player of Index.tsx, without errors and further user actions,
\* a play request on item i while item j plays leads to j not playing and i
\* playing as the active item.
C3_IndexHandoff ==
    \A j \in Slots : \A i \in Slots \ {j} :
        HandoffRequested(i, j) ~> HandoffDone(i, j)


\* C11: after Try Again the item is Loading, and once the load of its source
\* has succeeded the item is Ready.  As a property of states: an item that
\* shows no error, whose rendered element has loaded its source, and whose
\* listeners have no load event left to hear, is not Loading.
C11_RetryReachesReady ==
    \A i \in Mounted :
        ( /\ ~widget[i].hasError
          /\ widget[i].eload = "loaded"
          /\ Heard(widget[i]) \notin {"start", "loading", "meta"} )
        => ~widget[i].isLoading

AudioPositions(sel) == { k \in 1..Len(sel) : isAudioFile(sel[k]) }

\* C13: a selection without audio files raises the warning and changes
\* neither the playlist, nor ActiveIndex, nor any item; any other selection
\* raises no warning and makes the playlist hold exactly the audio files of
\* the selection, each once.
C13_EmptyIntakeWarns ==
    [][ \A sel \in Selections :
          SelectFiles(sel) =>
            IF AudioPositions(sel) = {}
            THEN /\ alert'
                 /\ audioFiles' = audioFiles
                 /\ activeAudioIndex' = activeAudioIndex
                 /\ widget' = widget
            ELSE /\ ~alert'
                 /\ Len(audioFiles') = Cardinality(AudioPositions(sel))
                 /\ { audioFiles'[k] : k \in 1..Len(audioFiles') }
                      = { sel[k] : k \in AudioPositions(sel) }
      ]_vars

\* The warning is open after a selection without audio files, made while
\* ActiveIndex still names an item of the playlist that was given up.
C13_Witness ==
    /\ alert
    /\ audioFiles = <<>>
    /\ activeAudioIndex # NoIndex


(***************************************************************************)
(* Properties of intake (SpecIntake).  A non-empty playlist is the one     *)
(* processFiles made of fileList.                                          *)
(***************************************************************************)
FilesOf(seq) == { seq[k] : k \in 1..Len(seq) }

\* The rule of the filter, from the two lists.
Recognized(f) ==
    \/ f.type \in audioTypes
    \/ \E ext \in audioExtensions : endsWith(toLowerCase(f.name), ext)

Numbered(f) == DigitRun(f.name, 1) > 0

NumberOf(f) == parseInt(f.name, DigitRun(f.name, 1))

SameKey(a, b) ==
    \/ ~Numbered(a) /\ ~Numbered(b)
    \/ Numbered(a) /\ Numbered(b) /\ NumberOf(a) = NumberOf(b)

\* The position of a file in a sequence without repetition.
PositionIn(seq, f) == CHOOSE k \in 1..Len(seq) : seq[k] = f

\* The orders in which the files of a selection can be handed over.
Reorderings(seq) ==
    { [k \in 1..Len(seq) |-> seq[pi[k]]] :
        pi \in { q \in [1..Len(seq) -> 1..Len(seq)] :
                    \A a, b \in 1..Len(seq) : a # b => q[a] # q[b] } }

\* C14: a selected file is in the playlist if and only if its type is one
\* of the listed MIME types or its lower-cased name ends with one of the
\* listed extensions; a kept file is there once.  When the warning is open
\* no selected file is recognized.
C14_FilterKeepsAudio ==
    /\ audioFiles # <<>> =>
          /\ \A f \in FilesOf(fileList) :
                f \in FilesOf(audioFiles) <=> Recognized(f)
          /\ FilesOf(audioFiles) \subseteq FilesOf(fileList)
          /\ Len(audioFiles) = Cardinality(FilesOf(audioFiles))
    /\ alert => \A f \in FilesOf(fileList) : ~Recognized(f)

\* A playlist made of a selection that held a file recognized by its type
\* alone, one recognized by its upper-case extension alone, and a file that
\* is dropped.
C14_Witness ==
    /\ FileTyped \in FilesOf(audioFiles)
    /\ FileTen \in FilesOf(audioFiles)
    /\ \E f \in FilesOf(fileList) : f \notin FilesOf(audioFiles)

\* C15: of two files of the playlist whose names start with digits, the
\* one with the smaller parsed number comes first.
C15_NumericOrder ==
    \A p, q \in 1..Len(audioFiles) :
        ( /\ Numbered(audioFiles[p]) /\ Numbered(audioFiles[q])
          /\ NumberOf(audioFiles[p]) < NumberOf(audioFiles[q]) )
        => p < q

\* The playlist holds 2-a.mp3 before 10-b.MP3, selected in the other order:
\* the lexical order of the names is the opposite one.
C15_Witness ==
    /\ FileTwo \in FilesOf(audioFiles) /\ FileTen \in FilesOf(audioFiles)
    /\ PositionIn(fileList, FileTen) < PositionIn(fileList, FileTwo)
    /\ localeCompare(toLowerCase(FileTen.name), toLowerCase(FileTwo.name), 1) < 0

\* C16: in the playlist a file without a leading digit comes after every
\* file with one, and two files with the same key (the same leading number,
\* or none) are in ascending order of their lower-cased names.
C16_UnnumberedLast ==
    \A p, q \in 1..Len(audioFiles) :
        /\ ( Numbered(audioFiles[p]) /\ ~Numbered(audioFiles[q]) ) => p < q
        /\ ( p < q /\ SameKey(audioFiles[p], audioFiles[q]) )
           => localeCompare(toLowerCase(audioFiles[p].name),
                            toLowerCase(audioFiles[q].name), 1) <= 0

\* The playlist holds three files, two of them with the same key and
\* different names, and an unnumbered file that was selected before a
\* numbered one.
C16_Witness ==
    /\ Len(audioFiles) = 3
    /\ \E p, q \in 1..Len(audioFiles) :
          /\ p # q
          /\ SameKey(audioFiles[p], audioFiles[q])
          /\ audioFiles[p].name # audioFiles[q].name
    /\ \E f, g \in FilesOf(audioFiles) :
          /\ ~Numbered(f) /\ Numbered(g)
          /\ PositionIn(fileList, f) < PositionIn(fileList, g)

\* C17: files of the playlist that compare equal are in the order of the
\* selection, and sorting the playlist again returns the playlist.
C17_StableIdempotent ==
    /\ \A p, q \in 1..Len(audioFiles) :
          ( p < q /\ compareFiles(audioFiles[p], audioFiles[q]) = 0 )
          => PositionIn(fileList, audioFiles[p]) < PositionIn(fileList, audioFiles[q])
    /\ sortAudioFiles(audioFiles) = audioFiles

\* The playlist holds two files that compare equal, after a file that was
\* selected last.
C17_Witness ==
    /\ Len(audioFiles) = 3
    /\ compareFiles(audioFiles[2], audioFiles[3]) = 0
    /\ audioFiles[1] = fileList[Len(fileList)]

\* C18: the playlist does not depend on the order in which the files of
\* the selection were handed over.
C18_OrderIndependent ==
    audioFiles # <<>> =>
        \A other \in Reorderings(fileList) : processFiles(other) = audioFiles


\* C19: the playlist changes only by a selection, which makes it the sorted
\* audio files of that selection, and by Clear All and Load New Files, which
\* empty it; no operation of a widget changes it.
C19_PlaylistFromIntake ==
    [][ audioFiles' # audioFiles =>
          \/ /\ audioFiles' = <<>>
             /\ handleClearAll \/ LoadNewFiles
          \/ /\ audioFiles = <<>>
             /\ \E sel \in Selections :
                   /\ SelectFiles(sel)
                   /\ audioFiles' = sortAudioFiles(filterAudio(sel))
      ]_vars

\* A playlist of two items that went through widget operations: one item
\* is in the error render, the other has played on.
C19_Witness ==
    /\ Len(audioFiles) = 2
    /\ \E i, j \in Mounted :
          /\ i # j
          /\ widget[i].hasError
          /\ widget[j].currentTime > 0


(***************************************************************************)
(* Properties of the object URLs (SpecUrl).                                *)
(***************************************************************************)
UrlsCreated == 1..Len(objectUrls.revoked)

\* C20: every mounted widget holds one object URL, made for it alone and
\* not released; every URL made for a widget since unmounted has been
\* released exactly once.
C20_UrlLifecycle ==
    /\ \A k \in Slots : k \in Mounted <=> objectUrls.of[k] # NoUrl
    /\ \A k \in Mounted :
          /\ objectUrls.of[k] \in UrlsCreated
          /\ objectUrls.revoked[objectUrls.of[k]] = 0
    /\ \A j, k \in Mounted : j # k => objectUrls.of[j] # objectUrls.of[k]
    /\ \A u \in UrlsCreated :
          IF \E k \in Mounted : objectUrls.of[k] = u
          THEN objectUrls.revoked[u] = 0
          ELSE objectUrls.revoked[u] = 1

\* Two widgets are mounted, one of them back from the error render, after
\* an earlier playlist was given up and its URLs were released.
C20_Witness ==
    /\ Len(audioFiles) = 2
    /\ \E u \in UrlsCreated : objectUrls.revoked[u] = 1
    /\ \E i \in Mounted : faults > 0 /\ ~widget[i].hasError


(***************************************************************************)
(* Properties of seeking, volume and the shared index.                     *)
(***************************************************************************)
\* clamp(p, 0, 1) * duration, for x = p * duration.
Clamped(x, d) == IF x < 0 THEN 0 ELSE IF x > d THEN d ELSE x

\* C21: a seek sets the position of the media and the displayed position
\* to the clicked position clamped to [0, duration].  Stated for the
\* AudioContainer of Index.tsx.
C21_SeekClamped ==
    [][ \A i \in Slots : \A x \in -1..(Dur + 1) :
          IndexHandleProgressClick(i, x) =>
            /\ widget'[i].audioTime = Clamped(x, widget[i].duration)
            /\ widget'[i].currentTime = Clamped(x, widget[i].duration)
      ]_vars

\* C22: the volume of an item is 1 when its widget is mounted, stays within
\* [0, 1], and changes only in a step of the item's own volume control.
C22_VolumeFrame ==
    [][ \A i \in Slots :
          /\ ( audioFiles = <<>> /\ i \in 1..Len(audioFiles') )
             => widget'[i].volume = 1
          /\ i \in 1..Len(audioFiles')
             => ( 0 <= widget'[i].volume /\ widget'[i].volume <= 1 )
          /\ ( /\ i \in Mounted
               /\ audioFiles' = audioFiles
               /\ widget'[i].volume # widget[i].volume )
             => \E v \in VolumeLevels : handleVolumeChange(i, v)
      ]_vars

\* An item whose volume was turned down has gone through a failure and a
\* retry, and the volume is still down.
C22_Witness ==
    \E i \in Mounted :
        /\ widget[i].volume = 0
        /\ faults > 0
        /\ ~widget[i].hasError
        /\ widget[i].lis # "cur"


\* C24: once the effects have run, an item with isPlaying = true is the
\* active item.
C24_PlayingIsActive ==
    ~EffectPending =>
        \A i \in Mounted : widget[i].isPlaying => activeAudioIndex = i

\* C25: when ActiveIndex names an item, no effect is due and no play call
\* of the item is in flight, the item is playing: it is not paused, not
\* loading and not in Error.
C25_ActiveIsPlaying ==
    \A i \in Mounted :
        ( activeAudioIndex = i /\ ~EffectPending /\ Pending(i) = 0 )
        => Playing(widget[i])

\* C26: ActiveIndex is none or the index of an item of the playlist.
C26_ActiveIndexValid ==
    activeAudioIndex = NoIndex \/ activeAudioIndex \in Mounted

\* C27: a stop issued by an item, by its pause or by its active-state
\* effect, leaves ActiveIndex alone when ActiveIndex names another item.
\* Stated for the player of Index.tsx.
C27_StopKeepsOtherActive ==
    [][ \A i \in Slots :
          ( /\ IndexHandlePause(i) \/ IndexActiveEffect(i)
            /\ activeAudioIndex # NoIndex
            /\ activeAudioIndex # i )
          => activeAudioIndex' = activeAudioIndex
      ]_vars

\* C28: an item with hasError = true does not have isPlaying = true.
C28_ErrorNotPlaying ==
    \A i \in Mounted : widget[i].hasError => ~widget[i].isPlaying

\* C29: a play request on an item that is loading or in error changes
\* neither ActiveIndex, nor the set of playing items, nor the playback state
\* of any item, nor what any element does.
C29_RefusedPlayIsNoOp ==
    [][ \A i \in Slots :
          ( /\ handlePlay(i) \/ handlePlayRefused(i)
            /\ widget[i].hasError \/ widget[i].isLoading )
          => /\ activeAudioIndex' = activeAudioIndex
             /\ PlayingItems' = PlayingItems
             /\ \A k \in Slots :
                   /\ PlaybackState(widget'[k]) = PlaybackState(widget[k])
                   /\ widget'[k].audible = widget[k].audible
      ]_vars

\* An item is loading or in error while another item is the active one and
\* plays.
C29_Witness ==
    \E i, j \in Mounted :
        /\ i # j
        /\ widget[i].hasError \/ widget[i].isLoading
        /\ activeAudioIndex = j
        /\ Playing(widget[j]) /\ widget[j].audible

\* C30: after Stop All, with no play request made since, no item ends up
\* playing.  As a property of states: when ActiveIndex is none and nothing
\* is left to happen by itself (no effect due, no play call in flight), a
\* state that Stop All leaves as it is, no item has isPlaying = true.
C30_StopAllStops ==
    ( /\ activeAudioIndex = NoIndex
      /\ Quiet
      /\ \A k \in Mounted : Pending(k) = 0 )
    => PlayingItems = {}

\* C31: restart puts the position of the item's media at 0 and keeps its
\* play state (a playing item goes on playing, a paused item stays paused);
\* it changes neither ActiveIndex, nor the playlist, nor any other item, also
\* when it fails; on an item in error it changes nothing.
C31_RestartFrame ==
    [][ \A i \in Slots :
          /\ handleRestart(i) =>
                /\ widget'[i].audioTime = 0
                /\ widget'[i].isPlaying = widget[i].isPlaying
                /\ widget'[i].hasError = widget[i].hasError
                /\ ( widget[i].isPlaying /\ widget[i].audible )
                   => widget'[i].audible
                /\ ~widget[i].isPlaying
                   => widget'[i].audible = widget[i].audible
                /\ widget'[i].volume = widget[i].volume
          /\ ( handleRestart(i) \/ RestartThrows(i) \/ handleRestartRefused(i) ) =>
                /\ activeAudioIndex' = activeAudioIndex
                /\ audioFiles' = audioFiles
                /\ \A k \in Slots \ {i} : widget'[k] = widget[k]
          /\ ( handleRestart(i) \/ handleRestartRefused(i) ) /\ widget[i].hasError
             => widget' = widget
      ]_vars

\* A playing item was restarted from a later position while another item
\* exists: its media is at 0 and playing, the play call of the restart is
\* pending, the displayed position is still the old one.
C31_Witness ==
    /\ Len(audioFiles) = 2
    /\ \E i \in Mounted :
          /\ widget[i].replay
          /\ widget[i].isPlaying /\ widget[i].audible
          /\ widget[i].audioTime = 0
          /\ widget[i].currentTime > 0

(***************************************************************************)
(* Properties of the time labels (SpecFormat).                             *)
(***************************************************************************)
\* The whole seconds of a finite time.
WholeSeconds(time) == time.ticks \div TicksPerSecond

\* The number a text of digits denotes, or -1 if it is not one.
DigitsValue(str) ==
    IF str # <<>> /\ DigitRun(str, 1) = Len(str) THEN parseInt(str, Len(str))
    ELSE -1

\* C23: the label of a finite time is the minutes, a colon and the seconds
\* on two digits, the seconds between 00 and 59, the two adding up to the
\* whole seconds of the time, the minutes without leading zero; the label
\* of NaN and of an infinite time is 0:00.
C23_FormatTime ==
    LET text == timeLabel.text
        n == Len(text)
    IN  IF isFinite(timeLabel.time)
        THEN /\ n >= 4
             /\ text[n - 2] = ":"
             /\ LET minutes == DigitsValue(SubSeq(text, 1, n - 3))
                    seconds == DigitsValue(SubSeq(text, n - 1, n))
                IN  /\ minutes >= 0
                    /\ seconds >= 0 /\ seconds <= 59
                    /\ 60 * minutes + seconds = WholeSeconds(timeLabel.time)
                    /\ SubSeq(text, 1, n - 3) = toString(minutes)
        ELSE text = <<"0", ":", "0", "0">>

\* The label of a time of ten minutes or more with fewer than ten seconds
\* and a fraction of a second.
C23_Witness ==
    /\ isFinite(timeLabel.time)
    /\ timeLabel.time.ticks % TicksPerSecond # 0
    /\ WholeSeconds(timeLabel.time) >= 600
    /\ WholeSeconds(timeLabel.time) % 60 \in 1..9
    /\ Len(timeLabel.text) = 5

============================================================================
